---- MODULE Spec2Model ----
(***************************************************************************)
(* A model of testmodulewrapper (util/fipstools/acvp/acvptool/             *)
(* testmodulewrapper/testmodulewrapper.go): the request loop `do`, the     *)
(* framing written by `reply`, and the handlers of the `handlers` table.   *)
(*                                                                         *)
(* Byte strings are kept run-length encoded: a byte string is a sequence   *)
(* of chunks [src, off, n], the n bytes off..off+n-1 of the byte source    *)
(* src.  A source is a constant byte repeated, the bytes of a literal      *)
(* text, or the output of a primitive of a library the program calls       *)
(* (HMAC-SHA-256, HKDF-SHA-256, AES-XTS, the OS random source), kept as    *)
(* the term of its inputs.  This lets the model hold the 1 MiB and 4 GiB   *)
(* strings the limits of the protocol are about.                           *)
(*                                                                         *)
(* What an iteration of the loop of do finds in nums, argLengths, args and *)
(* argsData from the iteration before is kept as stale: bytes, lengths and *)
(* slices of which the model records only that they were there before.     *)
(***************************************************************************)
EXTENDS Integers, Sequences, FiniteSets, TLC

(***************************************************************************)
(* Program constants.                                                      *)
(***************************************************************************)
maxArgs == 9
maxArgLength == 1048576
maxNameLength == 30
\* sha256.Size, the length of an HMAC-SHA-256 digest
DigestSize == 32
\* the AES block size XTS works on
BlockSize == 16
\* 2^16: a uint32 is kept as its two 16-bit halves [hi, lo], the checker's
\* integers being 32-bit signed
Half == 65536

(***************************************************************************)
(* Bounds of the model.                                                    *)
(***************************************************************************)
\* the harness writes at most this many request records
MaxRequests == 2

(***************************************************************************)
(* Byte sources.                                                           *)
(***************************************************************************)
ConstSrc(b) == [k |-> "const", b |-> b]
TextSrc(s) == [k |-> "text", s |-> s]
\* bytes that were in a buffer before its current use
StaleSrc == [k |-> "stale"]

\* len([]byte(s)) of the literal texts the model uses
TextLen(s) ==
    CASE s = "getConfig" -> 9
      [] s = "KDF-counter" -> 11
      [] s = "AES-XTS/encrypt" -> 15
      [] s = "AES-XTS/decrypt" -> 15
      [] s = "HKDF/SHA2-256" -> 13
      [] s = "hmacDRBG-reseed/SHA2-256" -> 24
      [] s = "hmacDRBG-pr/SHA2-256" -> 20
      [] s = "HMAC-SHA2-256" -> 13
      [] s = "before fixed data" -> 17
      [] s = "after fixed data" -> 16
      [] s = "HMAC-SHA2-512" -> 13
      [] s = "bogus" -> 5
      [] s = "<config>" -> 1483

(***************************************************************************)
(* Byte strings.                                                           *)
(***************************************************************************)
Empty == <<>>

Chunk(src, off, n) == [src |-> src, off |-> off, n |-> n]

\* n bytes that were in a buffer before its current use
Stale(n) == IF n = 0 THEN Empty ELSE <<Chunk(StaleSrc, 0, n)>>

\* n copies of the byte b
Rep(b, n) == IF n = 0 THEN Empty ELSE <<Chunk(ConstSrc(b), 0, n)>>

\* []byte(s)
Text(s) == <<Chunk(TextSrc(s), 0, TextLen(s))>>

RECURSIVE BLen(_)
\* len(s)
BLen(s) == IF s = <<>> THEN 0 ELSE s[1].n + BLen(Tail(s))

Joins(a, b) ==
    /\ a.src = b.src
    /\ \/ a.src.k \in {"const", "stale"}
       \/ a.off + a.n = b.off

\* append(s, t...)
Concat(s, t) ==
    IF s = <<>> THEN t
    ELSE IF t = <<>> THEN s
    ELSE LET a == s[Len(s)]
             b == t[1]
         IN IF Joins(a, b)
            THEN SubSeq(s, 1, Len(s) - 1) \o <<[a EXCEPT !.n = a.n + b.n]>> \o Tail(t)
            ELSE s \o t

RECURSIVE Take(_, _)
\* s[:n]
Take(s, n) ==
    IF n = 0 \/ s = <<>> THEN <<>>
    ELSE IF s[1].n <= n THEN <<s[1]>> \o Take(Tail(s), n - s[1].n)
    ELSE <<[s[1] EXCEPT !.n = n]>>

RECURSIVE Drop(_, _)
\* s[n:]
Drop(s, n) ==
    IF n = 0 \/ s = <<>> THEN s
    ELSE IF s[1].n <= n THEN Drop(Tail(s), n - s[1].n)
    ELSE <<[s[1] EXCEPT !.off = IF s[1].src.k \in {"const", "stale"} THEN 0 ELSE @ + n,
                        !.n = @ - n]>> \o Tail(s)

\* s[lo:hi]
Slice(s, lo, hi) == Drop(Take(s, hi), lo)

\* s with the bytes at..at+len(t)-1 overwritten by t (copy(s[at:], t))
Splice(s, at, t) ==
    Concat(Concat(Take(s, at), t), Drop(s, at + BLen(t)))

\* s[i]; a byte of a primitive's output has no value the model knows
ByteAt(s, i) ==
    LET c == Drop(s, i)[1]
    IN IF c.src.k = "const" THEN c.src.b ELSE 0

\* the byte string of the bytes bs[1], bs[2], ...
RECURSIVE FromBytes(_)
FromBytes(bs) ==
    IF bs = <<>> THEN Empty ELSE Concat(Rep(bs[1], 1), FromBytes(Tail(bs)))

RECURSIVE ConcatAll(_)
ConcatAll(ss) == IF ss = <<>> THEN Empty ELSE Concat(ss[1], ConcatAll(Tail(ss)))

(***************************************************************************)
(* encoding/binary.                                                        *)
(***************************************************************************)
\* the uint32 of the number v, 0 <= v < 2^31
U32Of(v) == [hi |-> v \div Half, lo |-> v % Half]

\* the number of the uint32 u, for u < 2^31
U32Int(u) == u.hi * Half + u.lo

\* u + v in uint32 arithmetic
U32Add(u, v) ==
    [hi |-> (u.hi + v.hi + (u.lo + v.lo) \div Half) % Half, lo |-> (u.lo + v.lo) % Half]

\* u < v
U32Less(u, v) == u.hi < v.hi \/ (u.hi = v.hi /\ u.lo < v.lo)

\* u / 32
U32Div32(u) == [hi |-> u.hi \div 32, lo |-> ((u.hi % 32) * Half + u.lo) \div 32]

\* 32 * u in uint32 arithmetic
U32Mul32(u) == [hi |-> (32 * u.hi + (32 * u.lo) \div Half) % Half, lo |-> (32 * u.lo) % Half]

\* the largest uint32
U32Max == [hi |-> Half - 1, lo |-> Half - 1]

\* binary.LittleEndian.Uint32(b), for len(b) >= 4
LittleEndianUint32(b) ==
    [hi |-> ByteAt(b, 2) + 256 * ByteAt(b, 3), lo |-> ByteAt(b, 0) + 256 * ByteAt(b, 1)]

\* binary.LittleEndian.PutUint32(b, u)
LittleEndianPutUint32(u) ==
    FromBytes(<<u.lo % 256, u.lo \div 256, u.hi % 256, u.hi \div 256>>)

\* binary.BigEndian.PutUint32(b, u)
BigEndianPutUint32(u) ==
    FromBytes(<<u.hi \div 256, u.hi % 256, u.lo \div 256, u.lo % 256>>)

\* binary.LittleEndian.Uint64(b), for len(b) >= 8: its low and high uint32
LittleEndianUint64(b) ==
    [lo |-> LittleEndianUint32(Take(b, 4)), hi |-> LittleEndianUint32(Slice(b, 4, 8))]

(***************************************************************************)
(* The primitives of the libraries the program calls, as terms of their    *)
(* inputs.                                                                 *)
(***************************************************************************)
\* hmac.New(sha256.New, key); mac.Write(msg); mac.Sum(nil)
HmacSum(key, msg) ==
    <<Chunk([k |-> "hmac", key |-> key, msg |-> msg], 0, DigestSize)>>

\* what rand.Reader.Read can do
RandOutcomes == {0, 1}

\* rand.Reader.Read(buf): outcome 0 is a failed read, which leaves buf as it
\* was; outcome r > 0 fills buf from the random stream r
RandRead(r, buf) ==
    IF r = 0 \/ BLen(buf) = 0 THEN buf
    ELSE <<Chunk([k |-> "rand", id |-> r], 0, BLen(buf))>>

\* the most an HKDF-SHA-256 generator gives: 255 blocks
HkdfLimit == 255 * DigestSize

\* hkdf.New(sha256.New, key, salt, info).Read(buf): more than the generator
\* can give is an error that leaves buf as it was
HkdfRead(key, salt, info, buf) ==
    IF BLen(buf) > HkdfLimit \/ BLen(buf) = 0 THEN buf
    ELSE <<Chunk([k |-> "hkdf", key |-> key, salt |-> salt, info |-> info], 0, BLen(buf))>>

\* xts.NewCipher(aes.NewCipher, key) succeeds: each half is an AES key
XtsKeyOk(key) == BLen(key) \in {32, 48, 64}

XtsSrc(dec, key, sectorNum, msg) ==
    [k |-> "xts", dec |-> dec, key |-> key, sector |-> sectorNum, msg |-> msg]

\* c.Encrypt(msg, msg, sectorNum) (dec = FALSE) and c.Decrypt(msg, msg,
\* sectorNum) (dec = TRUE): each undoes the other under the same key and
\* sector, and nothing else is known of them
XtsCrypt(dec, key, sectorNum, msg) ==
    IF msg = Empty THEN Empty
    ELSE IF /\ Len(msg) = 1
            /\ msg[1].src.k = "xts"
            /\ msg[1].src.dec = ~dec
            /\ msg[1].src.key = key
            /\ msg[1].src.sector = sectorNum
            /\ msg[1].off = 0
            /\ msg[1].n = BLen(msg[1].src.msg)
         THEN msg[1].src.msg
         ELSE <<Chunk(XtsSrc(dec, key, sectorNum, msg), 0, BLen(msg))>>

(***************************************************************************)
(* The HMAC_DRBG engine (NewHMACDRBG, Reseed, Generate).  Its state is     *)
(* kept as the sequence of the operations applied to it.                   *)
(***************************************************************************)
NewHMACDRBG(entropy, nonce, personalisation) ==
    [ops |-> <<[op |-> "Instantiate", entropy |-> entropy, nonce |-> nonce,
                data |-> personalisation]>>,
     reseedCounter |-> 1]

Reseed(drbg, entropy, additionalInput) ==
    [ops |-> Append(drbg.ops, [op |-> "Reseed", entropy |-> entropy, nonce |-> Empty,
                               data |-> additionalInput]),
     reseedCounter |-> 1]

\* the engine after Generate(out, additionalInput)
Generate(drbg, out, additionalInput) ==
    [ops |-> Append(drbg.ops, [op |-> "Generate", entropy |-> Empty, nonce |-> Empty,
                               data |-> additionalInput]),
     reseedCounter |-> drbg.reseedCounter + 1]

\* out after Generate(out, additionalInput): every byte of out is overwritten
GenerateOut(drbg, out, additionalInput) ==
    IF BLen(out) = 0 THEN out
    ELSE <<Chunk([k |-> "drbg", ops |-> Generate(drbg, out, additionalInput).ops],
                 0, BLen(out))>>

(***************************************************************************)
(* What a handler does: the error it returns ("" is nil, "panic" a run-    *)
(* time panic), the responses it hands to reply, if it calls reply, and    *)
(* what it has written through its second argument (doXTS works in place); *)
(* the buffers it has made with make, in order, and whether a read of the  *)
(* random source has failed in it.                                         *)
(***************************************************************************)
Fails(e) ==
    [err |-> e, called |-> FALSE, responses |-> <<>>, touched |-> FALSE, msg |-> Empty,
     allocs |-> <<>>, randFailed |-> FALSE]

Replies(rs) ==
    [err |-> "", called |-> TRUE, responses |-> rs, touched |-> FALSE, msg |-> Empty,
     allocs |-> <<>>, randFailed |-> FALSE]

\* make([]byte, n) or make([]byte, 0, n) for the variable what
Made(what, n) == [what |-> what, n |-> n]

getConfigBody(args) ==
    IF Len(args) # 0 THEN Fails("getConfig args")
    ELSE Replies(<<Text("<config>")>>)

RECURSIVE kdfBlocksFromZero(_, _, _, _)
\* variant of kdfBlocks: the counter written is i - 1, it starts at 0
kdfBlocksFromZero(key, fixed, i, n) ==
    IF i > n THEN Empty
    ELSE Concat(HmacSum(key, Concat(BigEndianPutUint32(U32Of(i - 1)), fixed)),
                kdfBlocksFromZero(key, fixed, i + 1, n))

RECURSIVE kdfBlocks(_, _, _, _)
\* the loop of kdfCounter from i on: result after the appends
kdfBlocks(key, fixed, i, n) ==
    IF i > n THEN Empty
    ELSE Concat(HmacSum(key, Concat(BigEndianPutUint32(U32Of(i)), fixed)),
                kdfBlocks(key, fixed, i + 1, n))

\* variant of kdfFixedData: one random byte for each digest
kdfFixedDataPerDigest(r, n) == RandRead(r, Rep(0, U32Int(n)))

\* the number of fixed-data bytes: input[4:] of var input [4 + 8]byte
kdfFixedLen == 8

\* input[4:] after rand.Reader.Read(input[4:]), n being the number of digests
kdfFixedData(r, n) == RandRead(r, Rep(0, kdfFixedLen))

\* variant of kdfCounterBody: result is made before outputBytes is checked
kdfCounterBodyMakesFirst(args, r1, r2) ==
    IF Len(args) # 5 THEN Fails("KDF args")
    ELSE IF BLen(args[1]) < 4 \/ BLen(args[5]) < 4 THEN Fails("panic")
    ELSE
      LET outputBytes == LittleEndianUint32(args[1])
          prf == args[2]
          counterLocation == args[3]
          counterBits == LittleEndianUint32(args[5])
          noKey == BLen(args[4]) = 0
          key == IF noKey THEN RandRead(r1, Rep(0, 32)) ELSE args[4]
          keyMade == IF noKey THEN <<Made("key", 32)>> ELSE <<>>
          keyFailed == noKey /\ r1 = 0
          n == U32Div32(U32Add(outputBytes, U32Of(31)))
          resultMade == <<Made("result", U32Int(U32Mul32(n)))>>
          fixed == kdfFixedData(r2, n)
          result == kdfBlocks(key, fixed, 1, U32Int(n))
          done(out) == [out EXCEPT !.allocs = keyMade \o resultMade,
                                   !.randFailed = keyFailed \/ r2 = 0]
      IN IF prf # Text("HMAC-SHA2-256") THEN Fails("KDF PRF")
         ELSE IF counterLocation # Text("before fixed data") THEN Fails("KDF counter location")
         ELSE IF counterBits # U32Of(32) THEN Fails("KDF counter length")
         ELSE IF U32Less(U32Add(outputBytes, U32Of(31)), outputBytes)
              THEN [Fails("KDF output length") EXCEPT !.allocs = keyMade \o resultMade,
                                                      !.randFailed = keyFailed]
         ELSE IF U32Less(U32Of(BLen(result)), outputBytes) THEN done(Fails("panic"))
         ELSE done(Replies(<<key, fixed, Take(result, U32Int(outputBytes))>>))

kdfCounterBody(args, r1, r2) ==
    IF Len(args) # 5 THEN Fails("KDF args")
    ELSE IF BLen(args[1]) < 4 \/ BLen(args[5]) < 4 THEN Fails("panic")
    ELSE
      LET outputBytes == LittleEndianUint32(args[1])
          prf == args[2]
          counterLocation == args[3]
          counterBits == LittleEndianUint32(args[5])
          noKey == BLen(args[4]) = 0
          key == IF noKey THEN RandRead(r1, Rep(0, 32)) ELSE args[4]
          keyMade == IF noKey THEN <<Made("key", 32)>> ELSE <<>>
          keyFailed == noKey /\ r1 = 0
          n == U32Div32(U32Add(outputBytes, U32Of(31)))
          resultMade == <<Made("result", U32Int(U32Mul32(n)))>>
          fixed == kdfFixedData(r2, n)
          result == kdfBlocks(key, fixed, 1, U32Int(n))
          done(out) == [out EXCEPT !.allocs = keyMade \o resultMade,
                                   !.randFailed = keyFailed \/ r2 = 0]
      IN IF prf # Text("HMAC-SHA2-256") THEN Fails("KDF PRF")
         ELSE IF counterLocation # Text("before fixed data") THEN Fails("KDF counter location")
         ELSE IF counterBits # U32Of(32) THEN Fails("KDF counter length")
         ELSE IF U32Less(U32Add(outputBytes, U32Of(31)), outputBytes)
              THEN [Fails("KDF output length") EXCEPT !.allocs = keyMade,
                                                      !.randFailed = keyFailed]
         ELSE IF U32Less(U32Of(BLen(result)), outputBytes) THEN done(Fails("panic"))
         ELSE done(Replies(<<key, fixed, Take(result, U32Int(outputBytes))>>))

\* variant of doXTS: the upper half of the tweak is not looked at
doXTSAnyTweak(args, decrypt) ==
    IF Len(args) # 3 THEN Fails("XTS args")
    ELSE
      LET key == args[1]
          msg == args[2]
          tweak == args[3]
      IN IF BLen(msg) % BlockSize # 0 THEN Fails("XTS msg length")
         ELSE IF BLen(tweak) # 16 THEN Fails("XTS tweak length")
         ELSE IF ~XtsKeyOk(key) THEN Fails("XTS key")
         ELSE LET sectorNum == LittleEndianUint64(Take(tweak, 8))
                  out == XtsCrypt(decrypt, key, sectorNum, msg)
              IN [Replies(<<out>>) EXCEPT !.touched = TRUE, !.msg = out]

\* variant of doXTS: an empty message is rejected with the ragged ones
doXTSNonEmpty(args, decrypt) ==
    IF Len(args) # 3 THEN Fails("XTS args")
    ELSE
      LET key == args[1]
          msg == args[2]
          tweak == args[3]
      IN IF BLen(msg) = 0 \/ BLen(msg) % BlockSize # 0 THEN Fails("XTS msg length")
         ELSE IF BLen(tweak) # 16 THEN Fails("XTS tweak length")
         ELSE IF Drop(tweak, 8) # Rep(0, 8) THEN Fails("XTS tweak structure")
         ELSE IF ~XtsKeyOk(key) THEN Fails("XTS key")
         ELSE LET sectorNum == LittleEndianUint64(Take(tweak, 8))
                  out == XtsCrypt(decrypt, key, sectorNum, msg)
              IN [Replies(<<out>>) EXCEPT !.touched = TRUE, !.msg = out]

doXTS(args, decrypt) ==
    IF Len(args) # 3 THEN Fails("XTS args")
    ELSE
      LET key == args[1]
          msg == args[2]
          tweak == args[3]
      IN IF BLen(msg) % BlockSize # 0 THEN Fails("XTS msg length")
         ELSE IF BLen(tweak) # 16 THEN Fails("XTS tweak length")
         ELSE IF Drop(tweak, 8) # Rep(0, 8) THEN Fails("XTS tweak structure")
         ELSE IF ~XtsKeyOk(key) THEN Fails("XTS key")
         ELSE LET sectorNum == LittleEndianUint64(Take(tweak, 8))
                  out == XtsCrypt(decrypt, key, sectorNum, msg)
              IN [Replies(<<out>>) EXCEPT !.touched = TRUE, !.msg = out]

xtsEncryptBody(args) == doXTS(args, FALSE)

\* variant of xtsDecryptBody: the direction flag of xtsEncrypt
xtsDecryptBodyEncrypts(args) == doXTS(args, FALSE)

xtsDecryptBody(args) == doXTS(args, TRUE)

hkdfMACBody(args) ==
    IF Len(args) # 4 THEN Fails("HKDF args")
    ELSE IF BLen(args[4]) # 4 THEN Fails("uint32 length")
    ELSE LET length == U32Int(LittleEndianUint32(args[4]))
         IN Replies(<<HkdfRead(args[1], args[2], args[3], Rep(0, length))>>)

\* variant of hmacDRBGReseedBody: the reply is made after the first Generate
hmacDRBGReseedBodyOneGenerate(args) ==
    IF Len(args) # 8 THEN Fails("hmacDRBG args")
    ELSE IF BLen(args[1]) # 4 THEN Fails("uint32 length")
    ELSE
      LET outLen == U32Int(LittleEndianUint32(args[1]))
          out0 == Rep(0, outLen)
          d0 == NewHMACDRBG(args[2], args[8], args[3])
          d1 == Reseed(d0, args[5], args[4])
          out1 == GenerateOut(d1, out0, args[6])
      IN Replies(<<out1>>)

hmacDRBGReseedBody(args) ==
    IF Len(args) # 8 THEN Fails("hmacDRBG args")
    ELSE IF BLen(args[1]) # 4 THEN Fails("uint32 length")
    ELSE
      LET outLen == U32Int(LittleEndianUint32(args[1]))
          out0 == Rep(0, outLen)
          d0 == NewHMACDRBG(args[2], args[8], args[3])
          d1 == Reseed(d0, args[5], args[4])
          out1 == GenerateOut(d1, out0, args[6])
          d2 == Generate(d1, out0, args[6])
          out2 == GenerateOut(d2, out1, args[7])
      IN Replies(<<out2>>)

\* variant of hmacDRBGPredictionResistanceBody: no Reseed before the second
\* Generate
hmacDRBGPredictionResistanceBodyOneReseed(args) ==
    IF Len(args) # 8 THEN Fails("hmacDRBG args")
    ELSE IF BLen(args[1]) # 4 THEN Fails("uint32 length")
    ELSE
      LET outLen == U32Int(LittleEndianUint32(args[1]))
          out0 == Rep(0, outLen)
          d0 == NewHMACDRBG(args[2], args[8], args[3])
          d1 == Reseed(d0, args[5], args[4])
          out1 == GenerateOut(d1, out0, Empty)
          d2 == Generate(d1, out0, Empty)
          out2 == GenerateOut(d2, out1, Empty)
      IN Replies(<<out2>>)

hmacDRBGPredictionResistanceBody(args) ==
    IF Len(args) # 8 THEN Fails("hmacDRBG args")
    ELSE IF BLen(args[1]) # 4 THEN Fails("uint32 length")
    ELSE
      LET outLen == U32Int(LittleEndianUint32(args[1]))
          out0 == Rep(0, outLen)
          d0 == NewHMACDRBG(args[2], args[8], args[3])
          d1 == Reseed(d0, args[5], args[4])
          out1 == GenerateOut(d1, out0, Empty)
          d2 == Generate(d1, out0, Empty)
          d3 == Reseed(d2, args[7], args[6])
          out2 == GenerateOut(d3, out1, Empty)
      IN Replies(<<out2>>)

\* the keys of the handlers table
handlers ==
    {"getConfig", "KDF-counter", "AES-XTS/encrypt", "AES-XTS/decrypt", "HKDF/SHA2-256",
     "hmacDRBG-reseed/SHA2-256", "hmacDRBG-pr/SHA2-256"}

(***************************************************************************)
(* reply: the bytes it writes to stdout and the error it returns.          *)
(***************************************************************************)
RECURSIVE replyLengthsBigEndian(_)
\* variant of replyLengths: the lengths are written most significant byte first
replyLengthsBigEndian(responses) ==
    IF responses = <<>> THEN Empty
    ELSE Concat(BigEndianPutUint32(U32Of(BLen(responses[1]))),
                replyLengthsBigEndian(Tail(responses)))

RECURSIVE replyLengths(_)
replyLengths(responses) ==
    IF responses = <<>> THEN Empty
    ELSE Concat(LittleEndianPutUint32(U32Of(BLen(responses[1]))),
                replyLengths(Tail(responses)))

\* variant of reply: it returns after the lengths, the payloads are not written
replyLengthsOnly(responses, wrote) ==
    IF Len(responses) > maxArgs THEN [err |-> "too many responses", bytes |-> Empty]
    ELSE [err |-> "",
          bytes |-> Concat(LittleEndianPutUint32(U32Of(Len(responses))),
                           replyLengths(responses))]

\* wrote: the Write calls that succeed (1: that of the lengths alone, 2: all)
reply(responses, wrote) ==
    IF Len(responses) > maxArgs THEN [err |-> "too many responses", bytes |-> Empty]
    ELSE LET lengths == Concat(LittleEndianPutUint32(U32Of(Len(responses))),
                               replyLengths(responses))
         IN IF wrote = 1 /\ Len(responses) > 0
                 THEN [err |-> "write failed", bytes |-> lengths]
            ELSE [err |-> "", bytes |-> Concat(lengths, ConcatAll(responses))]

(***************************************************************************)
(* The request records the harness may write.                              *)
(***************************************************************************)
\* XTS messages of up to this many blocks
MaxBlocks == 2
\* KDF-counter outputs of up to this many digests
MaxKdfBlocks == 2

\* a record of the wire format: count is its argCount field, data its
\* arguments, each written with its own length
Record(count, data) == [count |-> count, data |-> data]

Req(name, args) == Record(U32Of(1 + Len(args)), <<Text(name)>> \o args)

RECURSIVE wireLengths(_)
wireLengths(data) ==
    IF data = <<>> THEN Empty
    ELSE Concat(LittleEndianPutUint32(U32Of(BLen(data[1]))), wireLengths(Tail(data)))

\* the bytes of a record: u32 argCount, u32 argLen[], the payloads
Wire(rec) ==
    Concat(LittleEndianPutUint32(rec.count),
           Concat(wireLengths(rec.data), ConcatAll(rec.data)))

U32(v) == LittleEndianPutUint32(U32Of(v))

Key32 == Rep(17, 32)
Key64 == Rep(34, 64)
Msg(blocks) == IF blocks = 0 THEN Empty ELSE Concat(Rep(65, 1), Rep(66, BlockSize * blocks - 1))
Tweak(sector) == Concat(U32(sector), Rep(0, 12))

KdfReq(out, key) ==
    Req("KDF-counter", <<LittleEndianPutUint32(out), Text("HMAC-SHA2-256"), Text("before fixed data"), key, U32(32)>>)

\* the output lengths asked of KDF-counter: those of up to MaxKdfBlocks
\* digests, and those from 2^32 - 31 on
KdfOutputs ==
    {U32Of(v) : v \in {0, 1} \cup {DigestSize * b : b \in 1..MaxKdfBlocks}
                             \cup {DigestSize * b + 1 : b \in 1..(MaxKdfBlocks - 1)}}
    \cup {[hi |-> Half - 1, lo |-> Half - 31], U32Max}

XtsNames == {"AES-XTS/encrypt", "AES-XTS/decrypt"}

DrbgNames == {"hmacDRBG-reseed/SHA2-256", "hmacDRBG-pr/SHA2-256"}

DrbgReq(name, outLenBytes) ==
    Req(name, <<outLenBytes, Rep(1, 32), Rep(2, 32), Rep(3, 32), Rep(4, 32), Rep(5, 32),
                Rep(6, 32), Rep(7, 16)>>)

Records ==
    {Req("getConfig", <<>>), Req("getConfig", <<Rep(0, 1)>>)}
    \cup {KdfReq(out, key) : out \in KdfOutputs, key \in {Empty, Key32}}
    \cup {Req("KDF-counter", <<U32(32), Text("HMAC-SHA2-512"), Text("before fixed data"), Key32, U32(32)>>),
          Req("KDF-counter", <<U32(32), Text("HMAC-SHA2-256"), Text("after fixed data"), Key32, U32(32)>>),
          Req("KDF-counter", <<U32(32), Text("HMAC-SHA2-256"), Text("before fixed data"), Key32, U32(16)>>),
          Req("KDF-counter", <<U32(32), Text("HMAC-SHA2-256"), Text("before fixed data"), Key32>>),
          Req("KDF-counter", <<Rep(32, 1), Text("HMAC-SHA2-256"), Text("before fixed data"), Key32, U32(32)>>)}
    \cup {Req(name, <<Key32, Msg(b), Tweak(0)>>) : name \in XtsNames, b \in 0..MaxBlocks}
    \cup {Req(name, <<Key64, Msg(1), Tweak(258)>>) : name \in XtsNames}
    \cup {Req(name, <<Key32, m, Tweak(0)>>) : name \in XtsNames, m \in {Rep(65, 15), Rep(65, 17)}}
    \cup {Req(name, <<Key32, Msg(1), t>>) :
            name \in XtsNames,
            t \in {Rep(0, 15), Rep(0, 17), Concat(Rep(0, 8), Rep(1, 8)), Concat(Rep(0, 15), Rep(1, 1))}}
    \cup {Req("AES-XTS/encrypt", <<Rep(17, 16), Msg(1), Tweak(0)>>),
          Req("AES-XTS/encrypt", <<Key32, Msg(1)>>)}
    \cup {Req("HKDF/SHA2-256", <<Key32, Rep(9, 4), Rep(8, 3), U32(len)>>) :
            len \in {0, 32, HkdfLimit, HkdfLimit + 1, maxArgLength, maxArgLength + 1}}
    \cup {Req("HKDF/SHA2-256", <<Rep(7, maxArgLength), Empty, Empty, U32(16)>>),
          Req("HKDF/SHA2-256", <<Key32, Rep(9, 4), Rep(8, 3), Rep(0, 3)>>),
          Req("HKDF/SHA2-256", <<Key32, Rep(9, 4), Rep(8, 3)>>)}
    \cup {DrbgReq(name, U32(len)) : name \in DrbgNames, len \in {0, 32, maxArgLength + 1}}
    \cup {DrbgReq(name, Rep(0, 5)) : name \in DrbgNames}
    \cup {Req(name, <<U32(32), Rep(1, 32)>>) : name \in DrbgNames}
    \cup {Record(U32Of(0), <<>>), Record(U32Of(0), <<Rep(0, 4)>>),
          Record(U32Of(maxArgs + 1), <<Text("getConfig")>> \o [i \in 1..maxArgs |-> Empty]),
          Record(U32Max, <<Text("getConfig")>>),
          Req("bogus", <<>>), Req("bogus", <<Rep(0, 2)>>),
          Record(U32Of(1), <<Empty>>),
          Record(U32Of(1), <<Rep(120, maxNameLength)>>),
          Record(U32Of(1), <<Rep(120, maxNameLength + 1)>>),
          Req("getConfig", <<Rep(0, maxArgLength + 1)>>),
          Record(U32Of(maxArgs),
                 <<Rep(120, maxNameLength)>> \o [i \in 1..(maxArgs - 1) |-> Rep(i, maxArgLength)]),
          Req("HKDF/SHA2-256", <<Key32, Rep(9, 4), Rep(0, maxArgLength + 1), U32(32)>>)}

\* the records with their bytes
Sendable == {[rec |-> r, wire |-> Wire(r)] : r \in Records}

\* the records it may write ahead
Ahead ==
    {[rec |-> r, wire |-> Wire(r)] :
       r \in {Req("getConfig", <<>>), Record(U32Of(0), <<>>),
              Req("AES-XTS/decrypt", <<Key64, Msg(1), Tweak(258)>>),
              Req("HKDF/SHA2-256", <<Key32, Rep(9, 4), Rep(8, 3), U32(32)>>)}}

\* where the harness may stop in the middle of a record
CutPoints(rec) == {c \in {3, 4, 10, BLen(Wire(rec)) - 1} : 0 < c /\ c < BLen(Wire(rec))}

\* the records it may cut short
CutRecords ==
    {Req("getConfig", <<>>), Record(U32Of(0), <<>>),
     Req("AES-XTS/encrypt", <<Key32, Msg(1), Tweak(0)>>)}

\* the beginnings of records it may write before it closes the pipe
Cuttable ==
    UNION {{[rec |-> r, wire |-> Take(Wire(r), c)] : c \in CutPoints(r)} : r \in CutRecords}

(***************************************************************************)
(* The state: the two pipes, the locals of do, and the history the         *)
(* properties are stated over.                                             *)
(***************************************************************************)
VARIABLES
    stdin,       \* the bytes the harness has written and do has not read
    eof,         \* the harness has closed its end of stdin
    stdout,      \* the bytes written for the current record: a reply, whole or in part
    pc,          \* where do is: "header", "lengths", "payload", "dispatch", "exit"
    nums,        \* var nums [4 * (1 + maxArgs)]byte
    numArgs,     \* numArgs of the current iteration
    argLengths,  \* var argLengths [maxArgs]uint32
    args,        \* var args [maxArgs][]byte
    argsData,    \* var argsData []byte: [buf: the backing array, len: len(argsData)]
    exitStatus,  \* -1 while running, then the status of the process
    err,         \* the error do returned
    inflight,    \* history: the records written whose handling has not ended,
                 \* each with the bytes written of it
    nSent,       \* history: the number of records the harness has written
    consumed,    \* history: the number of bytes read for the current record
    recIdx,      \* history: the number of records do has begun to read
    nRead,       \* history: the number of requests read in full
    nReplies,    \* history: the number of replies written in full
    call,        \* history: the handler call of the last record [idx, name, args, err]
    nCalls,      \* history: the number of handler calls
    replied,     \* history: the reply to the last record [idx, responses]
    echo         \* history: the round trip under way [idx, orig]

vars ==
    <<stdin, eof, stdout, pc, nums, numArgs, argLengths, args, argsData, exitStatus, err,
      inflight, nSent, consumed, recIdx, nRead, nReplies, call, nCalls, replied, echo>>

locals == <<nums, numArgs, argLengths, args, argsData>>

history == <<nRead, nReplies, call, nCalls, replied>>

NoCall ==
    [idx |-> 0, name |-> "", args |-> <<>>, err |-> "", rec |-> Record(U32Of(0), <<>>),
     allocs |-> <<>>, randFailed |-> FALSE]

NoReply == [idx |-> 0, responses |-> <<>>]

NoEcho == [idx |-> 0, orig |-> Empty]

Init ==
    /\ stdin = Empty
    /\ eof = FALSE
    /\ stdout = Empty
    /\ pc = "header"
    /\ nums = Rep(0, 4 * (1 + maxArgs))
    /\ numArgs = U32Of(0)
    /\ argLengths = [i \in 1..maxArgs |-> 0]
    /\ args = [i \in 1..maxArgs |-> Empty]
    /\ argsData = [buf |-> Empty, len |-> 0]
    /\ exitStatus = -1
    /\ err = ""
    /\ inflight = <<>>
    /\ nSent = 0
    /\ consumed = 0
    /\ recIdx = 0
    /\ nRead = 0
    /\ nReplies = 0
    /\ call = NoCall
    /\ nCalls = 0
    /\ replied = NoReply
    /\ echo = NoEcho

(***************************************************************************)
(* The harness.                                                            *)
(***************************************************************************)
\* the harness writes a record when do is about to read one
CanSend ==
    /\ ~eof
    /\ pc = "header"
    /\ nSent < MaxRequests
    /\ nSent = recIdx

\* the harness writes a request record
Send ==
    /\ CanSend
    /\ \E s \in Sendable :
         /\ stdin' = Concat(stdin, s.wire)
         /\ inflight' = Append(inflight, s)
    /\ nSent' = nSent + 1
    /\ UNCHANGED <<eof, stdout, pc, locals, exitStatus, err, consumed, recIdx, history, echo>>

\* the harness writes a record ahead of the reply to the one before, whose
\* handler has yet to run
SendAhead ==
    /\ ~eof
    /\ pc = "dispatch"
    /\ nSent < MaxRequests
    /\ nSent = recIdx
    /\ \E s \in Ahead :
         /\ stdin' = Concat(stdin, s.wire)
         /\ inflight' = Append(inflight, s)
    /\ nSent' = nSent + 1
    /\ UNCHANGED <<eof, stdout, pc, locals, exitStatus, err, consumed, recIdx, history, echo>>

\* the harness writes the beginning of a record and closes the pipe
SendTruncated ==
    /\ CanSend
    /\ \E s \in Cuttable :
         /\ stdin' = Concat(stdin, s.wire)
         /\ inflight' = Append(inflight, s)
    /\ nSent' = nSent + 1
    /\ eof' = TRUE
    /\ UNCHANGED <<stdout, pc, locals, exitStatus, err, consumed, recIdx, history, echo>>

\* the harness has read the reply of an AES-XTS request and sends it back
\* the other way, with the same key and tweak
SendEcho ==
    /\ CanSend
    /\ pc = "header"
    /\ replied.idx = nSent
    /\ call.idx = replied.idx
    /\ call.name \in XtsNames
    /\ LET name == IF call.name = "AES-XTS/encrypt" THEN "AES-XTS/decrypt"
                   ELSE "AES-XTS/encrypt"
           rec == Req(name, <<call.args[1], replied.responses[1], call.args[3]>>)
       IN /\ stdin' = Concat(stdin, Wire(rec))
          /\ inflight' = Append(inflight, [rec |-> rec, wire |-> Wire(rec)])
          /\ echo' = [idx |-> nSent + 1, orig |-> call.args[2]]
    /\ nSent' = nSent + 1
    /\ UNCHANGED <<eof, stdout, pc, locals, exitStatus, err, consumed, recIdx, history>>

\* the harness closes the pipe, between two records or after the four
\* bytes of a record without arguments
Close ==
    /\ ~eof
    /\ pc = "header"
    /\ BLen(stdin) < 8
    /\ eof' = TRUE
    /\ UNCHANGED <<stdin, stdout, pc, locals, exitStatus, err, inflight, nSent, consumed,
                   recIdx, history, echo>>

(***************************************************************************)
(* do.                                                                     *)
(***************************************************************************)
\* variant of Exit: the error is recorded and the loop goes on to the next record
ExitAndContinue(e) ==
    /\ pc' = "header"
    /\ err' = e
    /\ exitStatus' = -1

\* do returns e and main exits with status 1
Exit(e) ==
    /\ pc' = "exit"
    /\ err' = e
    /\ exitStatus' = 1

\* variant of CanReadFull: the end of the input is not noticed, the read waits
CanReadFullWaits(n) == BLen(stdin) >= n

\* io.ReadFull(os.Stdin, buf) for len(buf) = n can return: the bytes are
\* there, or (fewer than n > 0) the pipe is closed
CanReadFull(n) == BLen(stdin) >= n \/ eof

ReadFullOk(n) == BLen(stdin) >= n

\* io.ReadFull(os.Stdin, nums[:8]) and the checks of numArgs; the history of
\* the record before ends here
ReadHeader ==
    /\ pc = "header"
    /\ CanReadFull(8)
    /\ recIdx' = IF BLen(stdin) > 0 THEN recIdx + 1 ELSE recIdx
    /\ IF ReadFullOk(8)
       THEN LET nums1 == Concat(Take(stdin, 8), Stale(BLen(nums) - 8))
                n == LittleEndianUint32(Take(nums1, 4))
            IN /\ nums' = nums1
               /\ stdin' = Drop(stdin, 8)
               /\ consumed' = 8
               /\ numArgs' = n
               /\ IF n = U32Of(0) THEN Exit("zero-argument operation")
                  ELSE IF U32Less(U32Of(maxArgs), n) THEN Exit("too many args")
                  ELSE /\ pc' = "lengths"
                       /\ UNCHANGED <<err, exitStatus>>
       ELSE /\ nums' = Concat(stdin, Stale(BLen(nums) - BLen(stdin)))
            /\ stdin' = Empty
            /\ consumed' = BLen(stdin)
            /\ Exit("EOF")
            /\ UNCHANGED numArgs
    /\ stdout' = Empty
    /\ call' = NoCall
    /\ replied' = NoReply
    /\ UNCHANGED <<eof, argLengths, args, argsData, inflight, nSent, nRead, nReplies, nCalls,
                   echo>>

RECURSIVE checkLengthsNameOnly(_, _, _, _, _)
\* variant of checkLengths: only the length of the name is limited
checkLengthsNameOnly(input, i, n, lens, need) ==
    IF i >= n THEN [err |-> "", argLengths |-> lens, need |-> need]
    ELSE LET argLength == LittleEndianUint32(Take(input, 4))
         IN IF i = 0 /\ U32Less(U32Of(maxNameLength), argLength)
            THEN [err |-> "name too long", argLengths |-> lens, need |-> need]
            ELSE checkLengthsNameOnly(Drop(input, 4), i + 1, n,
                                      [lens EXCEPT ![i + 1] = U32Int(argLength)],
                                      need + U32Int(argLength))

RECURSIVE checkLengths(_, _, _, _, _)
\* the loop over the lengths from argument i on (0-based): the error it
\* returns, argLengths and need when it ends
checkLengths(input, i, n, lens, need) ==
    IF i >= n THEN [err |-> "", argLengths |-> lens, need |-> need]
    ELSE LET argLength == LittleEndianUint32(Take(input, 4))
         IN IF i = 0 /\ U32Less(U32Of(maxNameLength), argLength)
            THEN [err |-> "name too long", argLengths |-> lens, need |-> need]
            ELSE IF U32Less(U32Of(maxArgLength), argLength)
            THEN [err |-> "argument too long", argLengths |-> lens, need |-> need]
            ELSE checkLengths(Drop(input, 4), i + 1, n,
                              [lens EXCEPT ![i + 1] = U32Int(argLength)],
                              need + U32Int(argLength))

\* variant of resize: a buffer of just the size needed is made every time
resizeExact(data, need) == [buf |-> Rep(0, need), len |-> need]

\* argsData after: if need > cap(argsData) { make } else { argsData[:need] }
resize(data, need) ==
    IF need > BLen(data.buf) THEN [buf |-> Rep(0, need), len |-> need]
    ELSE [buf |-> Stale(BLen(data.buf)), len |-> need]

\* a length that was in argLengths before the iteration
StaleLength == -1

\* a slice that was in args before the iteration
StaleSlice == Stale(1)

\* variant of lengthsLeft: the length fields are read from the first one again
lengthsLeftFromFirst(n) == 4 * n

\* len(nums[8:4+4*numArgs]) when numArgs > 1: the length fields still to read
\* after the first eight bytes
lengthsLeft(n) == IF n > 1 THEN 4 * n - 4 ELSE 0

\* io.ReadFull(os.Stdin, nums[8:4+4*numArgs]), the loop over the lengths and
\* the sizing of argsData
ReadLengths ==
    /\ pc = "lengths"
    /\ LET n == U32Int(numArgs)
           want == lengthsLeft(n)
       IN /\ CanReadFull(want)
          /\ IF ReadFullOk(want)
             THEN LET nums1 == Splice(nums, 8, Take(stdin, want))
                      chk == checkLengths(Drop(nums1, 4), 0, n,
                                          [i \in 1..maxArgs |-> StaleLength],
                                          0)
                  IN /\ nums' = nums1
                     /\ stdin' = Drop(stdin, want)
                     /\ consumed' = consumed + want
                     /\ argLengths' = chk.argLengths
                     /\ IF chk.err # ""
                        THEN /\ Exit(chk.err)
                             /\ UNCHANGED argsData
                        ELSE /\ argsData' = resize(argsData, chk.need)
                             /\ pc' = "payload"
                             /\ UNCHANGED <<err, exitStatus>>
             ELSE /\ nums' = Splice(nums, 8, stdin)
                  /\ stdin' = Empty
                  /\ consumed' = consumed + BLen(stdin)
                  /\ Exit("EOF")
                  /\ UNCHANGED <<argLengths, argsData>>
    /\ UNCHANGED <<eof, stdout, numArgs, args, inflight, nSent, recIdx, history, echo>>

RECURSIVE sliceArgs(_, _, _, _, _)
\* the loop that cuts argsData into args, from argument i on (0-based)
sliceArgs(input, i, n, lens, as) ==
    IF i >= n THEN as
    ELSE sliceArgs(Drop(input, lens[i + 1]), i + 1, n, lens,
                   [as EXCEPT ![i + 1] = Take(input, lens[i + 1])])

\* io.ReadFull(os.Stdin, argsData) and the cutting of args
ReadPayload ==
    /\ pc = "payload"
    /\ CanReadFull(argsData.len)
    /\ IF ReadFullOk(argsData.len)
       THEN LET buf1 == Splice(argsData.buf, 0, Take(stdin, argsData.len))
            IN /\ argsData' = [argsData EXCEPT !.buf = buf1]
               /\ stdin' = Drop(stdin, argsData.len)
               /\ consumed' = consumed + argsData.len
               /\ args' = sliceArgs(Take(buf1, argsData.len), 0, U32Int(numArgs), argLengths,
                                    [i \in 1..maxArgs |-> StaleSlice])
               /\ nRead' = nRead + 1
               /\ pc' = "dispatch"
               /\ UNCHANGED <<err, exitStatus>>
       ELSE /\ argsData' = [argsData EXCEPT !.buf = Splice(@, 0, stdin)]
            /\ stdin' = Empty
            /\ consumed' = consumed + BLen(stdin)
            /\ Exit("EOF")
            /\ UNCHANGED <<args, nRead>>
    /\ UNCHANGED <<eof, stdout, nums, numArgs, argLengths, inflight, nSent, recIdx,
                   nReplies, call, nCalls, replied, echo>>

\* name := string(args[0]) names the handler h
IsName(h) == args[1] = Text(h)

\* handlers[name] is missing
UnknownOperation ==
    /\ pc = "dispatch"
    /\ \A h \in handlers : ~IsName(h)
    /\ Exit("unknown operation")
    /\ UNCHANGED <<stdin, eof, stdout, locals, inflight, nSent, consumed, recIdx, history,
                   echo>>

\* the offset in argsData of the handler's second argument, args[2]
msgOffset == argLengths[1] + argLengths[2]

\* variant of hargs: args[1:], with the slots the record has not filled
hargsAllSlots == SubSeq(args, 2, maxArgs)

\* args[1:numArgs]
hargs == SubSeq(args, 2, U32Int(numArgs))

\* handler(args[1:numArgs]) for the handler named h, which does `out`, and
\* what do makes of the error it returns
Handle(h, out, wrote) ==
    LET rep == reply(out.responses, wrote)
        e == IF out.called THEN rep.err ELSE out.err
        whole == out.called /\ rep.err = ""
    IN /\ call' = [idx |-> recIdx, name |-> h, args |-> hargs, err |-> e,
                   rec |-> inflight[1].rec, allocs |-> out.allocs,
                   randFailed |-> out.randFailed]
       /\ nCalls' = nCalls + 1
       /\ nReplies' = IF whole THEN nReplies + 1 ELSE nReplies
       /\ replied' = IF whole THEN [idx |-> recIdx, responses |-> out.responses] ELSE replied
       /\ IF out.touched
          THEN /\ args' = [args EXCEPT ![3] = out.msg]
               /\ argsData' = [argsData EXCEPT !.buf = Splice(@, msgOffset, out.msg)]
          ELSE UNCHANGED <<args, argsData>>
       /\ stdout' = IF out.called /\ rep.bytes # Empty THEN rep.bytes ELSE stdout
       /\ IF e = "panic"
          THEN /\ pc' = "exit"
               /\ err' = e
               /\ exitStatus' = 2
               /\ UNCHANGED inflight
          ELSE IF e # ""
          THEN /\ Exit(e)
               /\ UNCHANGED inflight
          ELSE /\ pc' = "header"
               /\ inflight' = Tail(inflight)
               /\ UNCHANGED <<err, exitStatus>>
       /\ UNCHANGED <<stdin, eof, nums, numArgs, argLengths, nSent, consumed, recIdx, nRead,
                      echo>>

\* what the Write calls of reply can do
WriteOutcomes == {1, 2}

getConfig ==
    /\ pc = "dispatch"
    /\ IsName("getConfig")
    /\ \E w \in WriteOutcomes : Handle("getConfig", getConfigBody(hargs), w)

kdfCounter ==
    /\ pc = "dispatch"
    /\ IsName("KDF-counter")
    /\ \E r1, r2 \in RandOutcomes : \E w \in WriteOutcomes :
         Handle("KDF-counter", kdfCounterBody(hargs, r1, r2), w)

xtsEncrypt ==
    /\ pc = "dispatch"
    /\ IsName("AES-XTS/encrypt")
    /\ \E w \in WriteOutcomes : Handle("AES-XTS/encrypt", xtsEncryptBody(hargs), w)

xtsDecrypt ==
    /\ pc = "dispatch"
    /\ IsName("AES-XTS/decrypt")
    /\ \E w \in WriteOutcomes : Handle("AES-XTS/decrypt", xtsDecryptBody(hargs), w)

hkdfMAC ==
    /\ pc = "dispatch"
    /\ IsName("HKDF/SHA2-256")
    /\ \E w \in WriteOutcomes : Handle("HKDF/SHA2-256", hkdfMACBody(hargs), w)

hmacDRBGReseed ==
    /\ pc = "dispatch"
    /\ IsName("hmacDRBG-reseed/SHA2-256")
    /\ \E w \in WriteOutcomes :
         Handle("hmacDRBG-reseed/SHA2-256", hmacDRBGReseedBody(hargs), w)

hmacDRBGPredictionResistance ==
    /\ pc = "dispatch"
    /\ IsName("hmacDRBG-pr/SHA2-256")
    /\ \E w \in WriteOutcomes :
         Handle("hmacDRBG-pr/SHA2-256", hmacDRBGPredictionResistanceBody(hargs), w)

Next ==
    \/ Send
    \/ SendAhead
    \/ SendTruncated
    \/ SendEcho
    \/ Close
    \/ ReadHeader
    \/ ReadLengths
    \/ ReadPayload
    \/ UnknownOperation
    \/ getConfig
    \/ kdfCounter
    \/ xtsEncrypt
    \/ xtsDecrypt
    \/ hkdfMAC
    \/ hmacDRBGReseed
    \/ hmacDRBGPredictionResistance

Spec == Init /\ [][Next]_vars

(***************************************************************************)
(* What the properties are stated over.                                    *)
(***************************************************************************)
\* do has begun to read a record it has not replied to; it is inflight[1]
Begun == recIdx > nReplies /\ inflight # <<>>

\* the record is within the limits of the protocol, as its header states them
WithinLimits(rec) ==
    /\ rec.count # U32Of(0)
    /\ ~U32Less(U32Of(9), rec.count)
    /\ BLen(rec.data[1]) <= 30
    /\ \A i \in 1..Len(rec.data) : BLen(rec.data[i]) <= 1048576

\* the errors of the framing layer
ProtocolErrors ==
    {"zero-argument operation", "too many args", "name too long", "argument too long"}

\* the errors a handler returns for its arguments
ArgumentErrors ==
    {"getConfig args", "KDF args", "KDF PRF", "KDF counter location", "KDF counter length",
     "KDF output length", "XTS args", "XTS msg length", "XTS tweak length",
     "XTS tweak structure", "XTS key", "HKDF args", "uint32 length", "hmacDRBG args"}

\* the bytes of inflight[2], inflight[3], ...: the records after the first
RECURSIVE laterBytes(_)
laterBytes(q) ==
    IF Len(q) <= 1 THEN 0 ELSE BLen(q[Len(q)].wire) + laterBytes(SubSeq(q, 1, Len(q) - 1))

\* a reply record as the harness parses it: the count, the lengths and the
\* payloads the header announces, and what is left of the bytes
\* a length field as the harness reads it; it holds no more than 2^30
parseLength(b) ==
    LET u == LittleEndianUint32(b)
    IN IF u.hi >= 16384 THEN 1073741824 ELSE U32Int(u)

RECURSIVE parseLengths(_, _)
parseLengths(bytes, n) ==
    IF n = 0 THEN <<>>
    ELSE <<parseLength(Take(bytes, 4))>> \o parseLengths(Drop(bytes, 4), n - 1)

RECURSIVE parsePayloads(_, _)
parsePayloads(bytes, lens) ==
    IF lens = <<>> THEN <<>>
    ELSE <<Take(bytes, lens[1])>> \o parsePayloads(Drop(bytes, lens[1]), Tail(lens))

\* the bytes left after the payloads
RECURSIVE parseRest(_, _)
parseRest(bytes, lens) ==
    IF lens = <<>> THEN BLen(bytes)
    ELSE parseRest(Drop(bytes, lens[1]), Tail(lens))

ParseReply(bytes) ==
    LET count == IF BLen(bytes) < 4 THEN 0 ELSE parseLength(Take(bytes, 4))
        lens == parseLengths(Drop(bytes, 4), count)
    IN [count |-> count,
        lens |-> lens,
        payloads |-> parsePayloads(Drop(bytes, 4 + 4 * count), lens),
        rest |-> parseRest(Drop(bytes, 4 + 4 * count), lens)]

(***************************************************************************)
(* C1: a handler is invoked only for a record whose argCount is in 1..9,   *)
(* whose name is at most 30 bytes and whose arguments are at most 1 MiB    *)
(* each; a record beyond one of these limits ends the loop with an error   *)
(* of the framing layer, no handler invoked and nothing written for it.    *)
(***************************************************************************)
C1_HandlersOnlyForRecordsWithinLimits ==
    /\ pc = "dispatch" => WithinLimits(inflight[1].rec)
    /\ call.idx # 0 => WithinLimits(call.rec)
    /\ (Begun /\ ~WithinLimits(inflight[1].rec)) =>
         /\ pc \in {"lengths", "exit"}
         /\ pc = "exit" => (exitStatus = 1 /\ err \in ProtocolErrors \cup {"EOF"})
         /\ call.idx # recIdx
         /\ replied.idx # recIdx
         /\ stdout = Empty
         /\ nRead < recIdx

C1_Witness ==
    /\ pc = "exit"
    /\ err = "argument too long"
    /\ nCalls = 1
    /\ Begun
    /\ ~WithinLimits(inflight[1].rec)

C3_Failed ==
    pc = "exit" /\ err \in ProtocolErrors \cup ArgumentErrors \cup {"unknown operation"}

C3_State ==
    /\ pc = "exit" <=> exitStatus # -1
    /\ pc = "exit" => exitStatus \in {1, 2}
    /\ C3_Failed =>
         /\ exitStatus = 1
         /\ stdout = Empty
         /\ replied.idx # recIdx
         /\ nReplies = recIdx - 1
    /\ (pc = "exit" /\ err = "unknown operation") => (call.idx # recIdx /\ nCalls = nReplies)
    /\ (call.idx # 0 /\ call.err \in ArgumentErrors) => C3_Failed

C3_FailFast == []C3_State /\ [][pc # "exit"]_vars

C3_Witness ==
    /\ pc = "exit"
    /\ err = "KDF PRF"
    /\ call.idx = 1
    /\ nReplies = 0
    /\ stdin # Empty

(***************************************************************************)
(* C4: every argument of every reply written is at most 1,048,576 bytes    *)
(* long.                                                                   *)
(***************************************************************************)
C4_ReplyArgumentsWithinMaxArgLength ==
    \A i \in 1..Len(replied.responses) : BLen(replied.responses[i]) <= 1048576

(***************************************************************************)
(* C5: a reply has at most 9 arguments, 3 for KDF-counter and 1 for every  *)
(* other operation, and its header states the number and the lengths of    *)
(* the payloads that follow it; KDF-counter replies in the order key,      *)
(* fixed data, derived output.                                             *)
(***************************************************************************)
C5_ReplyCount(name) == IF name = "KDF-counter" THEN 3 ELSE 1

C5_ReplyHeaderMatchesPayloads ==
    replied.idx # 0 =>
      LET parsed == ParseReply(stdout)
          rs == replied.responses
      IN /\ call.idx = replied.idx
         /\ Len(rs) <= 9
         /\ Len(rs) = C5_ReplyCount(call.name)
         /\ parsed.count = Len(rs)
         /\ parsed.lens = [i \in 1..Len(rs) |-> BLen(rs[i])]
         /\ parsed.payloads = rs
         /\ parsed.rest = 0
         /\ call.name = "KDF-counter" =>
              /\ BLen(call.args[4]) > 0 => rs[1] = call.args[4]
              /\ BLen(call.args[4]) = 0 => BLen(rs[1]) = 32
              /\ \A j \in 1..Len(rs[3]) : rs[3][j].src.k = "hmac" /\ rs[3][j].src.key = rs[1]
              /\ BLen(rs[3]) = U32Int(LittleEndianUint32(call.args[1]))

C5_Witness ==
    /\ replied.idx = 2
    /\ call.name = "KDF-counter"
    /\ BLen(replied.responses[3]) = 33

(***************************************************************************)
(* C6: AES-XTS/encrypt and AES-XTS/decrypt fail, write nothing and leave   *)
(* the message as it was when the message length is not a multiple of 16,  *)
(* the tweak is not 16 bytes long, or one of the bytes 8..15 of the tweak  *)
(* is not zero.                                                            *)
(***************************************************************************)
C6_BadTweak(tweak) ==
    \/ BLen(tweak) # 16
    \/ \E i \in 8..15 : ByteAt(tweak, i) # 0

C6_XtsRejectsBadMessageOrTweak ==
    (/\ call.idx # 0
     /\ call.name \in XtsNames
     /\ Len(call.args) = 3
     /\ (BLen(call.args[2]) % 16 # 0 \/ C6_BadTweak(call.args[3]))) =>
      /\ call.err \in {"XTS msg length", "XTS tweak length", "XTS tweak structure"}
      /\ pc = "exit"
      /\ exitStatus = 1
      /\ stdout = Empty
      /\ replied.idx # call.idx
      /\ args[3] = call.args[2]
      /\ Slice(argsData.buf, msgOffset, msgOffset + argLengths[3]) = call.args[2]

C6_Witness ==
    /\ call.name = "AES-XTS/decrypt"
    /\ call.err = "XTS tweak structure"
    /\ ByteAt(call.args[3], 15) = 1
    /\ ByteAt(call.args[3], 8) = 0

(***************************************************************************)
(* C7: AES-XTS/encrypt and AES-XTS/decrypt with a message of length zero,  *)
(* a valid key and a valid tweak fail and write no reply.                  *)
(***************************************************************************)
C7_ValidXtsCall ==
    /\ call.idx # 0
    /\ call.name \in XtsNames
    /\ Len(call.args) = 3
    /\ XtsKeyOk(call.args[1])
    /\ ~C6_BadTweak(call.args[3])

C7_ZeroLengthMessageFails ==
    (C7_ValidXtsCall /\ BLen(call.args[2]) = 0) =>
      (call.err \in ArgumentErrors /\ stdout = Empty /\ replied.idx # call.idx)

(***************************************************************************)
(* C7, amended: with a valid key and a valid tweak the handlers reject a   *)
(* message exactly when its length is not a multiple of 16; a message of   *)
(* length zero is accepted, and unless the write fails the reply is one    *)
(* empty argument.                                                         *)
(***************************************************************************)
C7_MultipleOf16IncludingZeroAccepted ==
    C7_ValidXtsCall =>
      /\ call.err = "XTS msg length" <=> BLen(call.args[2]) % 16 # 0
      /\ call.err \in {"XTS msg length", "write failed", ""}
      /\ (BLen(call.args[2]) = 0 /\ call.err = "") =>
           (replied.idx = call.idx /\ replied.responses = <<Empty>>)

C7_Witness ==
    /\ C7_ValidXtsCall
    /\ BLen(call.args[2]) = 0
    /\ call.err = ""
    /\ replied.idx = call.idx
    /\ replied.responses = <<Empty>>

(***************************************************************************)
(* C8: the reply of AES-XTS/encrypt sent as the message of AES-XTS/decrypt *)
(* with the same key and tweak is answered with the first message (and     *)
(* the other way round); the sector number handed to the cipher is the     *)
(* little-endian value of the bytes 0..7 of the tweak.                     *)
(***************************************************************************)
C8_SectorOf(tweak) ==
    [lo |-> [lo |-> ByteAt(tweak, 0) + 256 * ByteAt(tweak, 1),
             hi |-> ByteAt(tweak, 2) + 256 * ByteAt(tweak, 3)],
     hi |-> [lo |-> ByteAt(tweak, 4) + 256 * ByteAt(tweak, 5),
             hi |-> ByteAt(tweak, 6) + 256 * ByteAt(tweak, 7)]]

C8_XtsRoundTrip ==
    /\ (echo.idx # 0 /\ replied.idx = echo.idx) => replied.responses = <<echo.orig>>
    /\ (/\ replied.idx # 0
        /\ call.name \in XtsNames
        /\ call.args[2] # Empty
        /\ \A j \in 1..Len(call.args[2]) : call.args[2][j].src.k = "const") =>
         LET c == replied.responses[1]
         IN /\ Len(c) = 1
            /\ c[1].src.k = "xts"
            /\ c[1].src.dec = (call.name = "AES-XTS/decrypt")
            /\ c[1].src.key = call.args[1]
            /\ c[1].src.msg = call.args[2]
            /\ c[1].src.sector = C8_SectorOf(call.args[3])

C8_Witness ==
    /\ echo.idx = 2
    /\ replied.idx = 2
    /\ call.name = "AES-XTS/decrypt"
    /\ BLen(call.args[1]) = 64
    /\ echo.orig = Msg(1)
    /\ replied.responses = <<Msg(1)>>

(***************************************************************************)
(* C9: the third argument of a KDF-counter reply is the first outputBytes  *)
(* bytes of HMAC(key, BE32(1) || fixedData) || ... || HMAC(key, BE32(n) || *)
(* fixedData), n = ceil(outputBytes / 32), key and fixedData being the     *)
(* first and second arguments of the reply; its length is outputBytes; a   *)
(* key that is not empty is echoed as it was supplied.                     *)
(***************************************************************************)
RECURSIVE C9_Digests(_, _, _)
C9_Digests(key, fixed, n) ==
    IF n = 0 THEN Empty
    ELSE Concat(C9_Digests(key, fixed, n - 1),
                HmacSum(key, Concat(FromBytes(<<0, 0, n \div 256, n % 256>>), fixed)))

C9_Ceil32(v) == IF v % 32 = 0 THEN v \div 32 ELSE v \div 32 + 1

C9_KdfApplies == replied.idx # 0 /\ call.name = "KDF-counter"

C9_KdfCounterOutput ==
    C9_KdfApplies =>
      LET outputBytes == U32Int(LittleEndianUint32(call.args[1]))
          key == replied.responses[1]
          fixedData == replied.responses[2]
          derived == replied.responses[3]
      IN /\ derived = Take(C9_Digests(key, fixedData, C9_Ceil32(outputBytes)), outputBytes)
         /\ BLen(derived) = outputBytes
         /\ BLen(call.args[4]) > 0 => key = call.args[4]

C9_Witness ==
    /\ C9_KdfApplies
    /\ BLen(replied.responses[3]) = 33
    /\ Len(replied.responses[3]) = 2
    /\ replied.responses[1] = Key32

(***************************************************************************)
(* C10: the second argument of a KDF-counter reply, the fixed data, is     *)
(* n = ceil(outputBytes / 32) bytes long.                                  *)
(***************************************************************************)
C10_FixedDataHasLengthN ==
    C9_KdfApplies =>
      BLen(replied.responses[2]) = C9_Ceil32(U32Int(LittleEndianUint32(call.args[1])))

(***************************************************************************)
(* C10, amended: the fixed data of a KDF-counter reply is 8 bytes long,    *)
(* whatever outputBytes is, and the counter loop makes n digests.          *)
(***************************************************************************)
C10_FixedDataHasLength8 ==
    C9_KdfApplies =>
      LET outputBytes == U32Int(LittleEndianUint32(call.args[1]))
          derived == replied.responses[3]
      IN /\ BLen(replied.responses[2]) = 8
         /\ Len(derived) = C9_Ceil32(outputBytes)
         /\ \A j \in 1..Len(derived) : BLen(Drop(derived[j].src.msg, 4)) = 8

C10_Witness ==
    /\ C9_KdfApplies
    /\ U32Int(LittleEndianUint32(call.args[1])) = 64
    /\ BLen(replied.responses[2]) = 8
    /\ replied.responses[2][1].src.k = "rand"

(***************************************************************************)
(* C11: KDF-counter with an outputBytes for which outputBytes + 31         *)
(* overflows 32 bits fails and writes no reply, and at the rejection the   *)
(* handler has made no buffer at all.                                      *)
(***************************************************************************)
C11_Overflows(o) == o.hi = 65535 /\ o.lo >= 65505

\* a call of kdfCounter that reaches the check of outputBytes
C11_KdfChecked ==
    /\ call.idx # 0
    /\ call.name = "KDF-counter"
    /\ Len(call.args) = 5
    /\ BLen(call.args[1]) = 4
    /\ BLen(call.args[5]) = 4
    /\ call.args[2] = Text("HMAC-SHA2-256")
    /\ call.args[3] = Text("before fixed data")
    /\ LittleEndianUint32(call.args[5]) = U32Of(32)

C11_Rejected ==
    /\ C11_KdfChecked
    /\ C11_Overflows(LittleEndianUint32(call.args[1]))

C11_NoBufferBeforeRejection ==
    C11_Rejected =>
      /\ call.err = "KDF output length"
      /\ stdout = Empty
      /\ replied.idx # call.idx
      /\ call.allocs = <<>>

(***************************************************************************)
(* C11, amended: such a request fails and writes no reply, and at the      *)
(* rejection the output buffer has not been made; the only buffer made is  *)
(* the 32-byte key, when the key argument is empty.  For an outputBytes    *)
(* that passes the check, 32 * n does not wrap and is at least outputBytes.*)
(***************************************************************************)
C11_Boundary ==
    {U32Of(v) : v \in {0, 1, 31, 32, 33, 65535, 65536, 1048576}}
      \cup {[hi |-> h, lo |-> l] : h \in {2047, 2048, 32768, 65535},
                                   l \in {0, 1, 65503, 65504, 65505, 65535}}

C11_NoWrap(o) ==
    LET n == U32Div32(U32Add(o, U32Of(31)))
    IN /\ 32 * n.hi + (32 * n.lo) \div Half < Half
       /\ ~U32Less(U32Mul32(n), o)

C11_OutputBufferNotMadeBeforeRejection ==
    /\ C11_Rejected =>
         /\ call.err = "KDF output length"
         /\ pc = "exit"
         /\ stdout = Empty
         /\ replied.idx # call.idx
         /\ \A i \in 1..Len(call.allocs) : call.allocs[i].what # "result"
         /\ call.allocs = IF call.args[4] = Empty THEN <<Made("key", 32)>> ELSE <<>>
    /\ (C11_KdfChecked /\ ~C11_Rejected) =>
         /\ call.err # "KDF output length"
         /\ call.allocs[Len(call.allocs)].what = "result"
         /\ call.allocs[Len(call.allocs)].n >= U32Int(LittleEndianUint32(call.args[1]))
    /\ \A o \in C11_Boundary :
         /\ C11_Overflows(o) <=> U32Less(U32Add(o, U32Of(31)), o)
         /\ ~C11_Overflows(o) => C11_NoWrap(o)

C11_Witness ==
    /\ C11_Rejected
    /\ LittleEndianUint32(call.args[1]) = U32Max
    /\ call.args[4] = Empty
    /\ call.err = "KDF output length"
    /\ call.allocs = <<Made("key", 32)>>

(***************************************************************************)
(* C12: when a read of the random source fails while KDF-counter makes     *)
(* the key for an empty key argument or the fixed data, the handler        *)
(* returns an error, no reply is written and the loop ends.                *)
(***************************************************************************)
C12_RandomFailureIsFatal ==
    (call.idx # 0 /\ call.name = "KDF-counter" /\ call.randFailed) =>
      /\ call.err # ""
      /\ pc = "exit"
      /\ exitStatus # -1
      /\ stdout = Empty
      /\ replied.idx # call.idx

(***************************************************************************)
(* C13: the reply of HKDF/SHA2-256 is one argument of `length` bytes,      *)
(* every byte of it output of the HKDF generator built from (key, salt,    *)
(* info), also when `length` is more than the generator can give.          *)
(***************************************************************************)
C13_HkdfReplyIsGeneratorOutput ==
    (replied.idx # 0 /\ call.name = "HKDF/SHA2-256") =>
      LET out == replied.responses[1]
      IN /\ Len(replied.responses) = 1
         /\ BLen(out) = U32Int(LittleEndianUint32(call.args[4]))
         /\ \A j \in 1..Len(out) :
              /\ out[j].src.k = "hkdf"
              /\ out[j].src.key = call.args[1]
              /\ out[j].src.salt = call.args[2]
              /\ out[j].src.info = call.args[3]

(***************************************************************************)
(* C14: hmacDRBG-reseed/SHA2-256 drives one fresh engine through           *)
(* Instantiate(entropy arg1, nonce arg7, personalization arg2),            *)
(* Reseed(entropy arg4, additional input arg3), Generate(arg5),            *)
(* Generate(arg6), nothing else; the reply is one argument of the          *)
(* requested length, all of it output of the second Generate.              *)
(* (Arguments are counted from 0 in the claim, from 1 in call.args.)       *)
(***************************************************************************)
C14_Step(op, entropy, nonce, data) ==
    [op |-> op, entropy |-> entropy, nonce |-> nonce, data |-> data]

C14_Applies == replied.idx # 0 /\ call.name = "hmacDRBG-reseed/SHA2-256"

C14_ReseedSequence ==
    C14_Applies =>
      LET a == call.args
          out == replied.responses[1]
          outLen == U32Int(LittleEndianUint32(a[1]))
      IN /\ Len(replied.responses) = 1
         /\ BLen(out) = outLen
         /\ outLen > 0 =>
              /\ Len(out) = 1
              /\ out[1].src.k = "drbg"
              /\ out[1].off = 0
              /\ out[1].src.ops =
                   <<C14_Step("Instantiate", a[2], a[8], a[3]),
                     C14_Step("Reseed", a[5], Empty, a[4]),
                     C14_Step("Generate", Empty, Empty, a[6]),
                     C14_Step("Generate", Empty, Empty, a[7])>>

C14_Witness ==
    /\ C14_Applies
    /\ BLen(replied.responses[1]) = 32
    /\ Len(replied.responses[1][1].src.ops) = 4
    /\ replied.responses[1][1].src.ops[4].data = Rep(6, 32)

(***************************************************************************)
(* C15: hmacDRBG-pr/SHA2-256 drives one fresh engine through               *)
(* Instantiate(arg1, nonce arg7, personalization arg2), Reseed(arg4,       *)
(* arg3), Generate(), Reseed(arg6, arg5), Generate(): every Generate comes *)
(* right after a Reseed, and the reply is the output of the second         *)
(* Generate only.                                                          *)
(***************************************************************************)
C15_Applies == replied.idx # 0 /\ call.name = "hmacDRBG-pr/SHA2-256"

C15_PredictionResistance ==
    C15_Applies =>
      LET a == call.args
          out == replied.responses[1]
          outLen == U32Int(LittleEndianUint32(a[1]))
      IN /\ Len(replied.responses) = 1
         /\ BLen(out) = outLen
         /\ outLen > 0 =>
              LET ops == out[1].src.ops
              IN /\ Len(out) = 1
                 /\ out[1].src.k = "drbg"
                 /\ out[1].off = 0
                 /\ ops[1].op = "Instantiate"
                 /\ \A i \in 1..Len(ops) :
                      ops[i].op = "Generate" => (i > 1 /\ ops[i - 1].op = "Reseed")
                 /\ ops = <<C14_Step("Instantiate", a[2], a[8], a[3]),
                            C14_Step("Reseed", a[5], Empty, a[4]),
                            C14_Step("Generate", Empty, Empty, Empty),
                            C14_Step("Reseed", a[7], Empty, a[6]),
                            C14_Step("Generate", Empty, Empty, Empty)>>

C15_Witness ==
    /\ C15_Applies
    /\ BLen(replied.responses[1]) = 32
    /\ Len(replied.responses[1][1].src.ops) = 5
    /\ replied.responses[1][1].src.ops[4].entropy = Rep(6, 32)

(***************************************************************************)
(* C16: no state is carried across requests: what a deterministic          *)
(* operation replies is decided by its request record alone, whatever      *)
(* records came before it, so the same request gets the same reply bytes   *)
(* in any two runs.                                                        *)
(***************************************************************************)
C16_Deterministic == XtsNames \cup DrbgNames \cup {"HKDF/SHA2-256"}

\* what the operation does with the arguments a, taken from the record
C16_Does(name, a) ==
    CASE name = "AES-XTS/encrypt" -> xtsEncryptBody(a)
      [] name = "AES-XTS/decrypt" -> xtsDecryptBody(a)
      [] name = "HKDF/SHA2-256" -> hkdfMACBody(a)
      [] name = "hmacDRBG-reseed/SHA2-256" -> hmacDRBGReseedBody(a)
      [] name = "hmacDRBG-pr/SHA2-256" -> hmacDRBGPredictionResistanceBody(a)

C16_ReplyDependsOnRequestOnly ==
    (call.idx # 0 /\ call.name \in C16_Deterministic) =>
      LET rec == call.rec
          does == C16_Does(call.name, Tail(rec.data))
      IN /\ rec.data[1] = Text(call.name)
         /\ call.args = Tail(rec.data)
         /\ does.err # "" => (call.err = does.err /\ stdout = Empty)
         /\ does.err = "" => call.err \in {"", "write failed"}
         /\ call.err = "" =>
              /\ replied.idx = call.idx
              /\ stdout = reply(does.responses, 2).bytes

C16_Witness ==
    /\ call.idx = 2
    /\ replied.idx = 2
    /\ nReplies = 2
    /\ call.name = "HKDF/SHA2-256"
    /\ BLen(argsData.buf) > argsData.len
    /\ BLen(replied.responses[1]) = 32

(***************************************************************************)
(* C17: whatever records came before, the arguments handed to the handler  *)
(* are the arguments 1..N-1 of the current record: argument i has the      *)
(* length argLen[i] and the bytes of the record's i-th payload, nothing    *)
(* in them is left from an earlier record, and the capacity of the         *)
(* payload buffer never shrinks.                                           *)
(***************************************************************************)
RECURSIVE C17_Sum(_)
C17_Sum(ns) == IF ns = <<>> THEN 0 ELSE ns[1] + C17_Sum(Tail(ns))

C17_Fresh(bytes) == \A j \in 1..Len(bytes) : bytes[j].src.k # "stale"

C17_ArgsAreTheRecords ==
    pc = "dispatch" =>
      LET rec == inflight[1].rec
          n == U32Int(numArgs)
      IN /\ n = Len(rec.data)
         /\ Len(hargs) = n - 1
         /\ hargs = Tail(rec.data)
         /\ \A i \in 1..n :
              /\ BLen(args[i]) = argLengths[i]
              /\ args[i] = rec.data[i]
              /\ C17_Fresh(args[i])
         /\ argsData.len = C17_Sum([i \in 1..n |-> argLengths[i]])
         /\ argsData.len <= BLen(argsData.buf)
         /\ Take(argsData.buf, argsData.len) = ConcatAll(rec.data)

C17_CapacityKept == BLen(argsData'.buf) >= BLen(argsData.buf)

C17_BufferReuseKeepsIsolation == []C17_ArgsAreTheRecords /\ [][C17_CapacityKept]_vars

C17_Witness ==
    /\ pc = "dispatch"
    /\ nRead = 2
    /\ nReplies = 1
    /\ BLen(argsData.buf) > argsData.len
    /\ ~C17_Fresh(argsData.buf)
    /\ U32Int(numArgs) = 5
    /\ args[6] = StaleSlice

(***************************************************************************)
(* C18: for a valid record the reader consumes 4 + 4 * argCount +          *)
(* sum(argLen) bytes, for argCount = 1 as for argCount > 1, so the next    *)
(* read starts at the first byte of the next record; the summed payload    *)
(* length is at most 30 + 8 * 1,048,576.                                   *)
(***************************************************************************)
\* the bytes of the records q[from], q[from + 1], ... as they were written
C18_Wires(q, from) == ConcatAll([i \in 1..(Len(q) - from + 1) |-> q[i + from - 1].wire])

C18_ReaderStaysOnBoundaries ==
    /\ pc = "dispatch" =>
         LET n == U32Int(numArgs)
         IN /\ consumed = 4 + 4 * n + C17_Sum([i \in 1..n |-> argLengths[i]])
            /\ consumed = BLen(inflight[1].wire)
            /\ stdin = C18_Wires(inflight, 2)
    /\ (pc = "header" /\ (nRead = recIdx \/ exitStatus # -1)) => stdin = C18_Wires(inflight, 1)
    /\ pc = "payload" =>
         /\ consumed = 4 + 4 * U32Int(numArgs)
         /\ consumed + argsData.len = BLen(Wire(inflight[1].rec))
         /\ ~eof => Take(stdin, argsData.len) = ConcatAll(inflight[1].rec.data)
    /\ pc \in {"payload", "dispatch"} =>
         /\ argsData.len <= 30 + 8 * 1048576
         /\ argsData.len = C17_Sum([i \in 1..U32Int(numArgs) |-> argLengths[i]])

C18_Witness ==
    /\ pc = "dispatch"
    /\ U32Int(numArgs) = 1
    /\ consumed = 17
    /\ nRead = 2
    /\ Len(inflight) = 1

(***************************************************************************)
(* C19: a request dispatched to a registered handler ends in a reply       *)
(* written or in an error value returned by the handler, which ends the    *)
(* loop; no handler aborts in another way, whatever the arguments hold,    *)
(* integers of fewer than 4 bytes included.                                *)
(***************************************************************************)
C19_HandlersReplyOrReturnError ==
    call.idx # 0 =>
      \/ call.err = "" /\ replied.idx = call.idx /\ pc = "header"
      \/ call.err \notin {"", "panic"} /\ pc = "exit" /\ exitStatus = 1

(***************************************************************************)
(* A finite input stream: the process takes its steps, and the harness,    *)
(* which writes only so many records, closes the pipe in the end.          *)
(***************************************************************************)
\* do can take a step: it is not waiting in a read and has not ended
CanStep ==
    \/ pc = "header" /\ CanReadFull(8)
    \/ pc = "lengths" /\ CanReadFull(lengthsLeft(U32Int(numArgs)))
    \/ pc = "payload" /\ CanReadFull(argsData.len)
    \/ pc = "dispatch"

\* a step of do: every step of do changes pc, and no step of the harness does
Step == CanStep /\ pc' \in {"header", "lengths", "payload", "dispatch", "exit"}

FairSpec == Spec /\ WF_pc(Step) /\ WF_vars(Close)

(***************************************************************************)
(* C20: do never returns nil: on every finite input stream, the empty one  *)
(* and one that ends after valid requests included, the process ends in    *)
(* the end, with a status that is not zero, and when it ends at the end of *)
(* the stream every request read whole has been answered.                  *)
(***************************************************************************)
C20_Ended == pc = "exit" /\ exitStatus \in {1, 2}

C20_State ==
    /\ exitStatus \in {-1, 1, 2}
    /\ pc = "exit" <=> exitStatus # -1
    /\ pc = "exit" => err # ""
    /\ (pc = "exit" /\ err = "EOF") =>
         /\ eof
         /\ stdin = Empty
         /\ nReplies = nRead
         /\ nCalls = nRead
         /\ Len(inflight) <= 1
         /\ inflight # <<>> => BLen(inflight[1].wire) < BLen(Wire(inflight[1].rec)) + 4

C20_TerminatesWithError == <>C20_Ended /\ []C20_State

C20_Witness ==
    /\ pc = "exit"
    /\ err = "EOF"
    /\ exitStatus = 1
    /\ nRead = 2
    /\ nReplies = 2
    /\ inflight = <<>>
    /\ consumed = 0

====
